---- MODULE Spec2Model ----
(***************************************************************************)
(* The pull parser of go-ini (parserc.go): ini_parser_parse and the state  *)
(* machine behind it, driven by a token queue that the scanner fills on    *)
(* demand.  One call of ini_parser_parse is one step of the model.         *)
(***************************************************************************)
EXTENDS Naturals, Sequences, FiniteSets

(* ---------------------------------------------------------------- bounds *)

\* Longest token queue the scanner produces in one run.
MaxTokens == 9

(* ------------------------------------------------------------- constants *)

\* ini_error_type_t
ini_NO_ERROR == "ini_NO_ERROR"
ini_SCANNER_ERROR == "ini_SCANNER_ERROR"
ini_PARSER_ERROR == "ini_PARSER_ERROR"

\* ini_token_type_t, as parserc.go names them
ini_DOCUMENT_START_TOKEN == "ini_DOCUMENT_START_TOKEN"
ini_DOCUMENT_END_TOKEN == "ini_DOCUMENT_END_TOKEN"
ini_SECTION_START_TOKEN == "ini_SECTION_START_TOKEN"
ini_SECTION_END_TOKEN == "ini_SECTION_END_TOKEN"
ini_SECTION_INHERIT_TOKEN == "ini_SECTION_INHERIT_TOKEN"
ini_SECTION_KEY_TOKEN == "ini_SECTION_KEY_TOKEN"
ini_SECTION_VALUE_TOKEN == "ini_SECTION_VALUE_TOKEN"
ini_SCALAR_TOKEN == "ini_SCALAR_TOKEN"

TokenTypes ==
  { ini_DOCUMENT_START_TOKEN, ini_DOCUMENT_END_TOKEN, ini_SECTION_START_TOKEN,
    ini_SECTION_END_TOKEN, ini_SECTION_INHERIT_TOKEN, ini_SECTION_KEY_TOKEN,
    ini_SECTION_VALUE_TOKEN, ini_SCALAR_TOKEN }

\* ini_event_type_t
ini_NO_EVENT == "ini_NO_EVENT"
ini_DOCUMENT_START_EVENT == "ini_DOCUMENT_START_EVENT"
ini_DOCUMENT_END_EVENT == "ini_DOCUMENT_END_EVENT"
ini_SECTION_ENTRY_EVENT == "ini_SECTION_ENTRY_EVENT"
ini_SCALAR_EVENT == "ini_SCALAR_EVENT"

\* ini_parser_state_t
ini_PARSE_STREAM_START_STATE == "ini_PARSE_STREAM_START_STATE"
ini_PARSE_DOCUMENT_START_STATE == "ini_PARSE_DOCUMENT_START_STATE"
ini_PARSE_DOCUMENT_END_STATE == "ini_PARSE_DOCUMENT_END_STATE"
ini_PARSE_SECTION_FIRST_ENTRY_STATE == "ini_PARSE_SECTION_FIRST_ENTRY_STATE"
ini_PARSE_SECTION_ENTRY_STATE == "ini_PARSE_SECTION_ENTRY_STATE"
ini_PARSE_SECTION_FIRST_KEY_STATE == "ini_PARSE_SECTION_FIRST_KEY_STATE"
ini_PARSE_SECTION_KEY_STATE == "ini_PARSE_SECTION_KEY_STATE"
ini_PARSE_SECTION_VALUE_STATE == "ini_PARSE_SECTION_VALUE_STATE"

\* ini_scalar_style_t
ini_ANY_SCALAR_STYLE == "ini_ANY_SCALAR_STYLE"
ini_PLAIN_SCALAR_STYLE == "ini_PLAIN_SCALAR_STYLE"
ini_DOUBLE_QUOTED_SCALAR_STYLE == "ini_DOUBLE_QUOTED_SCALAR_STYLE"

\* tags
ini_NULL_TAG == "ini_NULL_TAG"
ini_STR_TAG == "ini_STR_TAG"
ini_INT_TAG == "ini_INT_TAG"
ini_SECTION_TAG == "ini_SECTION_TAG"
ini_SECTION_INHERIT_TAG == "ini_SECTION_INHERIT_TAG"

DEFAULT_SECTION == <<"d", "e", "f", "a", "u", "l", "t">>

\* The six diagnostics of the state machine.
ProblemDocumentStart == "did not find expected <document-start>"
ProblemScalar == "did not find expected <scalar>"
ProblemSectionEnd == "did not find expected <section-end>"
ProblemSectionStartOrKey == "did not find expected <section-start> or <section-key>"
ProblemSectionKey == "did not find expected <section-key>"
ProblemSectionValue == "did not find expected <section-value>"

ParserProblems ==
  { ProblemDocumentStart, ProblemScalar, ProblemSectionEnd,
    ProblemSectionStartOrKey, ProblemSectionKey, ProblemSectionValue }

\* What the scanner leaves in parser.problem when it fails.
ProblemScanner == "scanner failure"

(* ------------------------------------------------------------ data model *)

\* ini_mark_t; the scanner of the model works on one line.
Mark(n) == [index |-> n, line |-> 0, column |-> n]

ZeroMark == Mark(0)

\* The zero value ini_event_t{}.
NoEvent ==
  [ typ |-> ini_NO_EVENT, start_mark |-> ZeroMark, end_mark |-> ZeroMark,
    value |-> <<>>, tag |-> "", style |-> ini_ANY_SCALAR_STYLE ]

\* Byte values the scanner puts in scalar tokens.
ScalarValues == { <<"a">>, <<"1", "2">>, DEFAULT_SECTION }

\* The bytes of the inherit marker token.
InheritMarker == <<":">>

Digits == { "0", "1", "2", "3", "4", "5", "6", "7", "8", "9" }

\* The scalar classifier: a pure function of the bytes.
analyzeTag(value) ==
  IF value = <<>> THEN ini_NULL_TAG
  ELSE IF \A i \in 1..Len(value) : value[i] \in Digits THEN ini_INT_TAG
  ELSE ini_STR_TAG

\* The token the scanner produces at queue position i (0-based) for a kind,
\* a scalar payload and a style: every token is one column wide.
Token(typ, i, value, style) ==
  [ typ |-> typ, start_mark |-> Mark(2 * i), end_mark |-> Mark(2 * i + 1),
    value |-> IF typ = ini_SCALAR_TOKEN THEN value
              ELSE IF typ = ini_SECTION_INHERIT_TOKEN THEN InheritMarker
              ELSE <<>>,
    style |-> IF typ = ini_SCALAR_TOKEN THEN style ELSE ini_ANY_SCALAR_STYLE ]

ScalarStyles == { ini_PLAIN_SCALAR_STYLE, ini_DOUBLE_QUOTED_SCALAR_STYLE }

\* Every token the scanner can put at queue position i.
TokensAt(i) ==
  { Token(typ, i, v, s) : typ \in TokenTypes, v \in ScalarValues, s \in ScalarStyles }

(* ----------------------------------------------------------------- state *)

VARIABLES
  parser,        \* ini_parser_t: the fields the parser reads and writes
  scan_failed,   \* the scanner cannot produce the token after the queue
  event,         \* the event object of the last call of ini_parser_parse
  ret,           \* what the last call returned
  pre,           \* parser as the last call found it
  called,        \* the last step was a call of ini_parser_parse
  events,        \* the non-empty events produced so far, in order
  failures,      \* how many calls have returned false
  peek_nil,      \* in the last call peek_token returned nil
  panicked,      \* a call ran into a Go panic
  idle_calls     \* how many running calls in a row have consumed no token

vars ==
  <<parser, scan_failed, event, ret, pre, called, events, failures, peek_nil, panicked,
    idle_calls>>

\* The parser after construction: nothing scanned, nothing parsed.  The
\* field skipped_unpeeked is no field of ini_parser_t: it records that some
\* skip_token ran while no peeked token was available.
NewParser ==
  [ error |-> ini_NO_ERROR, problem |-> "", problem_mark |-> ZeroMark,
    tokens |-> <<>>, tokens_head |-> 0, tokens_parsed |-> 0,
    token_available |-> FALSE, document_end_produced |-> FALSE,
    state |-> ini_PARSE_DOCUMENT_START_STATE, states |-> <<>>,
    skipped_unpeeked |-> FALSE ]

(* ---------------------------------------------------------- token source *)

\* What a step function hands back: the parser as it leaves it, the event
\* object, the returned status; starved marks a call that asked the scanner
\* for a token it has not produced yet, panic a call that Go aborts.
Out(p, ev, ok) ==
  [p |-> p, event |-> ev, ok |-> ok, nil |-> FALSE, starved |-> FALSE, panic |-> FALSE]

Panic(p) ==
  [p |-> p, event |-> NoEvent, ok |-> FALSE, nil |-> FALSE, starved |-> FALSE, panic |-> TRUE]

\* The scanner: makes the token at tokens_head available, or fails and
\* records its own error.
ini_parser_fetch_more_tokens(p) ==
  IF p.tokens_head < Len(p.tokens)
  THEN [p |-> [p EXCEPT !.token_available = TRUE], ok |-> TRUE, starved |-> FALSE]
  ELSE IF scan_failed
  THEN [p |-> [p EXCEPT !.error = ini_SCANNER_ERROR,
                        !.problem = ProblemScanner,
                        !.problem_mark = Mark(2 * p.tokens_head)],
        ok |-> FALSE, starved |-> FALSE]
  ELSE [p |-> p, ok |-> FALSE, starved |-> TRUE]

\* Peek the next token in the token queue: nil is TRUE for Go's nil.
peek_token(p) ==
  IF p.token_available
  THEN [p |-> p, nil |-> FALSE, starved |-> FALSE]
  ELSE LET f == ini_parser_fetch_more_tokens(p)
       IN  [p |-> f.p, nil |-> ~f.ok, starved |-> f.starved]

\* The token peek_token returned a pointer to.
HeadToken(p) == p.tokens[p.tokens_head + 1]

\* A step function's `return false` after peek_token returned nil.
NilOut(pk) ==
  [p |-> pk.p, event |-> NoEvent, ok |-> FALSE, nil |-> TRUE, starved |-> pk.starved,
   panic |-> FALSE]

\* skip_token that forgets to count the token.
skip_token_uncounted(p) ==
  [p EXCEPT !.token_available = FALSE,
            !.document_end_produced = (HeadToken(p).typ = ini_DOCUMENT_END_TOKEN),
            !.tokens_head = @ + 1,
            !.skipped_unpeeked = @ \/ ~p.token_available]

\* skip_token that leaves document_end_produced alone.
skip_token_unflagged(p) ==
  [p EXCEPT !.token_available = FALSE,
            !.tokens_parsed = @ + 1,
            !.tokens_head = @ + 1,
            !.skipped_unpeeked = @ \/ ~p.token_available]

\* Remove the next token from the queue.
skip_token(p) ==
  [p EXCEPT !.token_available = FALSE,
            !.tokens_parsed = @ + 1,
            !.document_end_produced = (HeadToken(p).typ = ini_DOCUMENT_END_TOKEN),
            !.tokens_head = @ + 1,
            !.skipped_unpeeked = @ \/ ~p.token_available]

\* ini_parser_set_parser_error that does not store the mark.
ini_parser_set_parser_error_no_mark(p, problem, problem_mark) ==
  [p EXCEPT !.error = ini_PARSER_ERROR,
            !.problem = problem]

\* ini_parser_set_parser_error that leaves the error kind unset.
ini_parser_set_parser_error_no_kind(p, problem, problem_mark) ==
  [p EXCEPT !.problem = problem,
            !.problem_mark = problem_mark]

\* Set parser error.
ini_parser_set_parser_error(p, problem, problem_mark) ==
  [p EXCEPT !.error = ini_PARSER_ERROR,
            !.problem = problem,
            !.problem_mark = problem_mark]

\* `return ini_parser_set_parser_error(...)`: the call fails, the event stays erased.
Fail(p, problem, problem_mark) ==
  Out(ini_parser_set_parser_error(p, problem, problem_mark), NoEvent, FALSE)

(* --------------------------------------------------------- state machine *)

\* ini_parser_parse_document_start that pushes no return state.
ini_parser_parse_document_start_no_push(p) ==
  LET pk == peek_token(p) IN
  IF pk.nil THEN NilOut(pk)
  ELSE
    LET token == HeadToken(pk.p)
        p1 == skip_token(pk.p)
    IN  IF token.typ # ini_DOCUMENT_START_TOKEN
        THEN Fail(p1, ProblemDocumentStart, token.start_mark)
        ELSE Out([p1 EXCEPT !.state = ini_PARSE_SECTION_FIRST_ENTRY_STATE],
                 [NoEvent EXCEPT !.typ = ini_DOCUMENT_START_EVENT,
                                 !.start_mark = token.start_mark,
                                 !.end_mark = token.end_mark],
                 TRUE)

ini_parser_parse_document_start(p) ==
  LET pk == peek_token(p) IN
  IF pk.nil THEN NilOut(pk)
  ELSE
    LET token == HeadToken(pk.p)
        p1 == skip_token(pk.p)
    IN  IF token.typ # ini_DOCUMENT_START_TOKEN
        THEN Fail(p1, ProblemDocumentStart, token.start_mark)
        ELSE Out([p1 EXCEPT !.states = Append(@, ini_PARSE_DOCUMENT_END_STATE),
                            !.state = ini_PARSE_SECTION_FIRST_ENTRY_STATE],
                 [NoEvent EXCEPT !.typ = ini_DOCUMENT_START_EVENT,
                                 !.start_mark = token.start_mark,
                                 !.end_mark = token.end_mark],
                 TRUE)

\* SectionEntryDocumentEnd that emits the event and leaves the state as it is.
SectionEntryDocumentEndNoPop(p, token) ==
  Out(p,
      [NoEvent EXCEPT !.typ = ini_DOCUMENT_END_EVENT,
                      !.start_mark = token.start_mark,
                      !.end_mark = token.end_mark],
      TRUE)

\* ini_parser_parse_section_entry, DOCUMENT-END lookahead: pop the return state.
SectionEntryDocumentEnd(p, token) ==
  IF Len(p.states) = 0 THEN Panic(p)
  ELSE Out([p EXCEPT !.state = p.states[Len(p.states)],
                     !.states = SubSeq(p.states, 1, Len(p.states) - 1)],
           [NoEvent EXCEPT !.typ = ini_DOCUMENT_END_EVENT,
                           !.start_mark = token.start_mark,
                           !.end_mark = token.end_mark],
           TRUE)

\* SectionEntryDefault with the event ranging over the key token.
SectionEntryDefaultWide(p, token) ==
  Out([p EXCEPT !.state = ini_PARSE_SECTION_FIRST_KEY_STATE],
      [NoEvent EXCEPT !.typ = ini_SECTION_ENTRY_EVENT,
                      !.start_mark = token.start_mark,
                      !.end_mark = token.end_mark,
                      !.value = DEFAULT_SECTION,
                      !.tag = ini_SECTION_TAG],
      TRUE)

\* ini_parser_parse_section_entry, first && SECTION-KEY lookahead: the default section.
SectionEntryDefault(p, token) ==
  Out([p EXCEPT !.state = ini_PARSE_SECTION_FIRST_KEY_STATE],
      [NoEvent EXCEPT !.typ = ini_SECTION_ENTRY_EVENT,
                      !.start_mark = token.start_mark,
                      !.end_mark = token.start_mark,
                      !.value = DEFAULT_SECTION,
                      !.tag = ini_SECTION_TAG],
      TRUE)

\* SectionEntryClose that moves on to Section-Entry, not Section-First-Key.
SectionEntryCloseToEntry(p, token, inherit, section_name, start_mark, end_mark) ==
  IF token.typ = ini_SECTION_END_TOKEN
  THEN Out([skip_token(p) EXCEPT !.state = ini_PARSE_SECTION_ENTRY_STATE],
           [NoEvent EXCEPT !.typ = ini_SECTION_ENTRY_EVENT,
                           !.start_mark = start_mark,
                           !.end_mark = end_mark,
                           !.value = section_name,
                           !.tag = IF inherit THEN ini_SECTION_INHERIT_TAG
                                   ELSE ini_SECTION_TAG,
                           !.style = token.style],
           TRUE)
  ELSE Fail(p, ProblemSectionEnd, token.start_mark)

\* SectionEntryClose that reports the missing bracket at the token's end.
SectionEntryCloseEndMark(p, token, inherit, section_name, start_mark, end_mark) ==
  IF token.typ = ini_SECTION_END_TOKEN
  THEN Out([skip_token(p) EXCEPT !.state = ini_PARSE_SECTION_FIRST_KEY_STATE],
           [NoEvent EXCEPT !.typ = ini_SECTION_ENTRY_EVENT,
                           !.start_mark = start_mark,
                           !.end_mark = end_mark,
                           !.value = section_name,
                           !.tag = IF inherit THEN ini_SECTION_INHERIT_TAG
                                   ELSE ini_SECTION_TAG,
                           !.style = token.style],
           TRUE)
  ELSE Fail(p, ProblemSectionEnd, token.end_mark)

\* ini_parser_parse_section_entry, the closing bracket of a header: token is
\* the lookahead after the name (or after the parent name).
SectionEntryClose(p, token, inherit, section_name, start_mark, end_mark) ==
  IF token.typ = ini_SECTION_END_TOKEN
  THEN Out([skip_token(p) EXCEPT !.state = ini_PARSE_SECTION_FIRST_KEY_STATE],
           [NoEvent EXCEPT !.typ = ini_SECTION_ENTRY_EVENT,
                           !.start_mark = start_mark,
                           !.end_mark = end_mark,
                           !.value = section_name,
                           !.tag = IF inherit THEN ini_SECTION_INHERIT_TAG
                                   ELSE ini_SECTION_TAG,
                           !.style = token.style],
           TRUE)
  ELSE Fail(p, ProblemSectionEnd, token.start_mark)

\* SectionEntryInherit that leaves the marker bytes out of the name.
SectionEntryInheritNoMarker(p, token, section_name, start_mark) ==
  LET p3 == skip_token(p)
      pk3 == peek_token(p3)
  IN
  IF pk3.nil THEN NilOut(pk3)
  ELSE
    LET parent == HeadToken(pk3.p)
        p4 == skip_token(pk3.p)
        name2 == section_name \o parent.value
        end_mark == parent.end_mark
    IN
    IF parent.typ # ini_SCALAR_TOKEN
    THEN Fail(p4, ProblemScalar, parent.start_mark)
    ELSE
      LET p5 == [p4 EXCEPT !.state = ini_PARSE_SECTION_FIRST_KEY_STATE]
          pk4 == peek_token(p5)
      IN  IF pk4.nil THEN NilOut(pk4)
          ELSE SectionEntryClose(pk4.p, HeadToken(pk4.p), TRUE, name2,
                                 start_mark, end_mark)

\* ini_parser_parse_section_entry, the inheritance clause: token is the
\* SECTION-INHERIT lookahead, p the parser that peeked it.
SectionEntryInherit(p, token, section_name, start_mark) ==
  LET p3 == skip_token(p)
      name1 == section_name \o token.value
      pk3 == peek_token(p3)
  IN
  IF pk3.nil THEN NilOut(pk3)
  ELSE
    LET parent == HeadToken(pk3.p)
        p4 == skip_token(pk3.p)
        name2 == name1 \o parent.value
        end_mark == parent.end_mark
    IN
    IF parent.typ # ini_SCALAR_TOKEN
    THEN Fail(p4, ProblemScalar, parent.start_mark)
    ELSE
      LET p5 == [p4 EXCEPT !.state = ini_PARSE_SECTION_FIRST_KEY_STATE]
          pk4 == peek_token(p5)
      IN  IF pk4.nil THEN NilOut(pk4)
          ELSE SectionEntryClose(pk4.p, HeadToken(pk4.p), TRUE, name2,
                                 start_mark, end_mark)

\* ini_parser_parse_section_entry, SECTION-START lookahead: the header.
SectionEntryHeader(p, token) ==
  LET start_mark == token.start_mark
      p1 == skip_token(p)
      pk1 == peek_token(p1)
  IN
  IF pk1.nil THEN NilOut(pk1)
  ELSE
    LET name == HeadToken(pk1.p)
        p2 == skip_token(pk1.p)
    IN
    IF name.typ # ini_SCALAR_TOKEN
    THEN Fail(p2, ProblemScalar, name.start_mark)
    ELSE
      LET section_name == name.value
          pk2 == peek_token(p2)
      IN
      IF pk2.nil THEN NilOut(pk2)
      ELSE
        LET next == HeadToken(pk2.p)
            end_mark == next.end_mark
        IN  IF next.typ = ini_SECTION_INHERIT_TOKEN
            THEN SectionEntryInherit(pk2.p, next, section_name, start_mark)
            ELSE SectionEntryClose(pk2.p, next, FALSE, section_name,
                                   start_mark, end_mark)

\* ini_parser_parse_section_entry, SECTION-END lookahead.
SectionEntrySectionEnd(p, token) ==
  LET p1 == skip_token(p)
      pk1 == peek_token(p1)
  IN
  IF pk1.nil THEN NilOut(pk1)
  ELSE
    LET key == HeadToken(pk1.p)
        p2 == skip_token(pk1.p)
    IN
    IF key.typ # ini_SECTION_KEY_TOKEN
    THEN Fail(p2, ProblemSectionKey, key.start_mark)
    ELSE
      LET start_mark == key.start_mark
          pk2 == peek_token(p2)
      IN
      IF pk2.nil THEN NilOut(pk2)
      ELSE
        LET tok == HeadToken(pk2.p)
            end_mark == tok.end_mark
            p3 == skip_token(pk2.p)
        IN  Out([p3 EXCEPT !.state = ini_PARSE_SECTION_VALUE_STATE],
                [NoEvent EXCEPT !.typ = ini_SCALAR_EVENT,
                                !.start_mark = start_mark,
                                !.end_mark = end_mark,
                                !.value = tok.value,
                                !.tag = analyzeTag(tok.value)],
                TRUE)

\* Parse the section.
ini_parser_parse_section_entry(p, first) ==
  LET pk == peek_token(p) IN
  IF pk.nil THEN NilOut(pk)
  ELSE
    LET token == HeadToken(pk.p) IN
    IF token.typ = ini_DOCUMENT_END_TOKEN
    THEN SectionEntryDocumentEnd(pk.p, token)
    ELSE IF first /\ token.typ = ini_SECTION_KEY_TOKEN
    THEN SectionEntryDefault(pk.p, token)
    ELSE IF token.typ = ini_SECTION_START_TOKEN
    THEN SectionEntryHeader(pk.p, token)
    ELSE IF token.typ = ini_SECTION_END_TOKEN
    THEN SectionEntrySectionEnd(pk.p, token)
    ELSE Fail(pk.p, ProblemSectionStartOrKey, token.start_mark)

\* SectionKeyBoundary that changes the state and assigns no event.
SectionKeyBoundaryNoEvent(p, token) ==
  Out([p EXCEPT !.state = ini_PARSE_SECTION_ENTRY_STATE], NoEvent, TRUE)

\* SectionKeyBoundary that consumes the lookahead token.
SectionKeyBoundarySkipping(p, token) ==
  Out([skip_token(p) EXCEPT !.state = ini_PARSE_SECTION_ENTRY_STATE],
      [NoEvent EXCEPT !.typ = ini_SECTION_ENTRY_EVENT,
                      !.start_mark = token.start_mark,
                      !.end_mark = token.end_mark],
      TRUE)

\* ini_parser_parse_section_key, lookahead that is no SECTION-KEY: the
\* boundary event.
SectionKeyBoundary(p, token) ==
  Out([p EXCEPT !.state = ini_PARSE_SECTION_ENTRY_STATE],
      [NoEvent EXCEPT !.typ = ini_SECTION_ENTRY_EVENT,
                      !.start_mark = token.start_mark,
                      !.end_mark = token.end_mark],
      TRUE)

\* ini_parser_parse_section_key that reports a missing scalar at the key.
ini_parser_parse_section_key_key_mark(p, first) ==
  LET pk == peek_token(p) IN
  IF pk.nil THEN NilOut(pk)
  ELSE
    LET token == HeadToken(pk.p) IN
    IF token.typ = ini_SECTION_KEY_TOKEN
    THEN
      LET p1 == skip_token(pk.p)
          start_mark == token.start_mark
          pk1 == peek_token(p1)
      IN
      IF pk1.nil THEN NilOut(pk1)
      ELSE
        LET tok == HeadToken(pk1.p)
            end_mark == tok.end_mark
        IN  IF tok.typ = ini_SCALAR_TOKEN
            THEN Out([skip_token(pk1.p) EXCEPT !.state = ini_PARSE_SECTION_VALUE_STATE],
                     [NoEvent EXCEPT !.typ = ini_SCALAR_EVENT,
                                     !.start_mark = start_mark,
                                     !.end_mark = end_mark,
                                     !.value = tok.value,
                                     !.tag = analyzeTag(tok.value),
                                     !.style = tok.style],
                     TRUE)
            ELSE Fail(pk1.p, ProblemScalar, start_mark)
    ELSE SectionKeyBoundary(pk.p, token)

ini_parser_parse_section_key(p, first) ==
  LET pk == peek_token(p) IN
  IF pk.nil THEN NilOut(pk)
  ELSE
    LET token == HeadToken(pk.p) IN
    IF token.typ = ini_SECTION_KEY_TOKEN
    THEN
      LET p1 == skip_token(pk.p)
          start_mark == token.start_mark
          pk1 == peek_token(p1)
      IN
      IF pk1.nil THEN NilOut(pk1)
      ELSE
        LET tok == HeadToken(pk1.p)
            end_mark == tok.end_mark
        IN  IF tok.typ = ini_SCALAR_TOKEN
            THEN Out([skip_token(pk1.p) EXCEPT !.state = ini_PARSE_SECTION_VALUE_STATE],
                     [NoEvent EXCEPT !.typ = ini_SCALAR_EVENT,
                                     !.start_mark = start_mark,
                                     !.end_mark = end_mark,
                                     !.value = tok.value,
                                     !.tag = analyzeTag(tok.value),
                                     !.style = tok.style],
                     TRUE)
            ELSE Fail(pk1.p, ProblemScalar, tok.start_mark)
    ELSE SectionKeyBoundary(pk.p, token)

\* ini_parser_process_empty_scalar that classifies the empty value as a string.
ini_parser_process_empty_scalar_str(p, mark) ==
  Out(p,
      [NoEvent EXCEPT !.typ = ini_SCALAR_EVENT,
                      !.start_mark = mark,
                      !.end_mark = mark,
                      !.value = <<>>,
                      !.tag = ini_STR_TAG,
                      !.style = ini_PLAIN_SCALAR_STYLE],
      TRUE)

ini_parser_process_empty_scalar(p, mark) ==
  Out(p,
      [NoEvent EXCEPT !.typ = ini_SCALAR_EVENT,
                      !.start_mark = mark,
                      !.end_mark = mark,
                      !.value = <<>>,
                      !.tag = ini_NULL_TAG,
                      !.style = ini_PLAIN_SCALAR_STYLE],
      TRUE)

ini_parser_parse_section_value(p) ==
  LET pk == peek_token(p) IN
  IF pk.nil THEN NilOut(pk)
  ELSE
    LET token == HeadToken(pk.p) IN
    IF token.typ = ini_SECTION_VALUE_TOKEN
    THEN
      LET p1 == skip_token(pk.p)
          start_mark == token.start_mark
          pk1 == peek_token(p1)
      IN
      IF pk1.nil THEN NilOut(pk1)
      ELSE
        LET tok == HeadToken(pk1.p)
            end_mark == tok.end_mark
        IN  IF tok.typ = ini_SCALAR_TOKEN
            THEN Out([skip_token(pk1.p) EXCEPT !.state = ini_PARSE_SECTION_KEY_STATE],
                     [NoEvent EXCEPT !.typ = ini_SCALAR_EVENT,
                                     !.start_mark = start_mark,
                                     !.end_mark = end_mark,
                                     !.value = tok.value,
                                     !.tag = analyzeTag(tok.value),
                                     !.style = tok.style],
                     TRUE)
            ELSE ini_parser_process_empty_scalar(
                   [pk1.p EXCEPT !.state = ini_PARSE_SECTION_KEY_STATE],
                   tok.start_mark)
    ELSE Fail(pk.p, ProblemSectionValue, token.start_mark)

\* State dispatcher.
ini_parser_state_machine(p) ==
  CASE p.state = ini_PARSE_DOCUMENT_START_STATE -> ini_parser_parse_document_start(p)
    [] p.state = ini_PARSE_SECTION_FIRST_ENTRY_STATE -> ini_parser_parse_section_entry(p, TRUE)
    [] p.state = ini_PARSE_SECTION_ENTRY_STATE -> ini_parser_parse_section_entry(p, FALSE)
    [] p.state = ini_PARSE_SECTION_FIRST_KEY_STATE -> ini_parser_parse_section_key(p, TRUE)
    [] p.state = ini_PARSE_SECTION_KEY_STATE -> ini_parser_parse_section_key(p, FALSE)
    [] p.state = ini_PARSE_SECTION_VALUE_STATE -> ini_parser_parse_section_value(p)
    [] OTHER -> Panic(p)

\* Latched with the error test left out.
LatchedIgnoringError(p) ==
  \/ p.document_end_produced
  \/ p.state = ini_PARSE_DOCUMENT_END_STATE

\* Latched with the test of document_end_produced left out.
LatchedIgnoringDocumentEnd(p) ==
  \/ p.error # ini_NO_ERROR
  \/ p.state = ini_PARSE_DOCUMENT_END_STATE

\* Latched with the test of the current state left out.
LatchedIgnoringState(p) ==
  \/ p.document_end_produced
  \/ p.error # ini_NO_ERROR

\* No events after the end of the stream or error.
Latched(p) ==
  \/ p.document_end_produced
  \/ p.error # ini_NO_ERROR
  \/ p.state = ini_PARSE_DOCUMENT_END_STATE

\* Get the next event.
ini_parser_parse(p) ==
  IF Latched(p) THEN Out(p, NoEvent, TRUE)
  ELSE ini_parser_state_machine(p)

(* --------------------------------------------------------------- actions *)

\* Failed calls counted up to this many.
MaxFailures == 3

Init ==
  /\ parser = NewParser
  /\ scan_failed = FALSE
  /\ event = NoEvent
  /\ ret = TRUE
  /\ pre = NewParser
  /\ called = FALSE
  /\ events = <<>>
  /\ failures = 0
  /\ peek_nil = FALSE
  /\ panicked = FALSE
  /\ idle_calls = 0

\* The next call of ini_parser_parse needs a token the scanner has not produced.
Starved == ini_parser_parse(parser).starved

HasDocumentEnd(tokens) ==
  \E i \in 1..Len(tokens) : tokens[i].typ = ini_DOCUMENT_END_TOKEN

\* The scanner produces the token the next call asks for; the last token of
\* the longest input is DOCUMENT-END.
Scan ==
  /\ ~panicked
  /\ Starved
  /\ ~scan_failed
  /\ Len(parser.tokens) < MaxTokens
  /\ \E t \in TokensAt(Len(parser.tokens)) :
       /\ Len(parser.tokens) = MaxTokens - 1 => t.typ = ini_DOCUMENT_END_TOKEN
       /\ parser' = [parser EXCEPT !.tokens = Append(@, t)]
  /\ called' = FALSE
  /\ UNCHANGED <<scan_failed, event, ret, pre, events, failures, peek_nil, panicked,
                 idle_calls>>

\* The scanner fails on the input after the tokens produced so far.
ScanFail ==
  /\ ~panicked
  /\ Starved
  /\ ~scan_failed
  /\ scan_failed' = TRUE
  /\ called' = FALSE
  /\ UNCHANGED <<parser, event, ret, pre, events, failures, peek_nil, panicked,
                 idle_calls>>

\* One call of ini_parser_parse.
Parse ==
  /\ ~panicked
  /\ failures < MaxFailures
  /\ LET r == ini_parser_parse(parser) IN
       /\ ~r.starved
       /\ parser' = r.p
       /\ event' = r.event
       /\ ret' = r.ok
       /\ events' = IF r.event.typ # ini_NO_EVENT THEN Append(events, r.event) ELSE events
       /\ failures' = IF r.ok \/ r.panic THEN failures ELSE failures + 1
       /\ peek_nil' = r.nil
       /\ panicked' = r.panic
       /\ idle_calls' = IF Latched(parser) THEN idle_calls
                        ELSE IF r.p.tokens_head = parser.tokens_head THEN idle_calls + 1
                        ELSE 0
  /\ pre' = parser
  /\ called' = TRUE
  /\ UNCHANGED scan_failed

Next == Scan \/ ScanFail \/ Parse

Spec == Init /\ [][Next]_vars

\* A call of ini_parser_parse that changes the state can be made: the
\* enabling condition of <<Parse>>_vars.  A call on a latched parser repeats
\* the step before it once that step was such a call too.
ParseEnabled ==
  /\ ~panicked
  /\ failures < MaxFailures
  /\ ~Starved
  /\ ~(/\ Latched(parser)
       /\ called /\ ret /\ ~peek_nil
       /\ pre = parser
       /\ event = NoEvent)

\* The scanner has been asked for a token and has not failed yet: the
\* enabling condition of <<Scan \/ ScanFail>>_vars.
ScanEnabled == ~panicked /\ Starved /\ ~scan_failed

\* Weak fairness of Parse: the caller keeps calling ini_parser_parse.
ParseFair == []<>(~ParseEnabled) \/ []<><<Parse>>_vars

\* Weak fairness of the scanner: it answers every request for a token, with
\* a token or with a failure.
ScanFair == []<>(~ScanEnabled) \/ []<><<Scan \/ ScanFail>>_vars

LiveSpec == Init /\ [][Next]_vars /\ ParseFair /\ ScanFair

(* ---------------------------------------------------------------- claims *)

Last(seq) == seq[Len(seq)]

\* Some event of the sequence has the kind.
HasEvent(evs, typ) == \E i \in 1..Len(evs) : evs[i].typ = typ

\* C1. Error latch: once a call has returned false, every later call returns
\* true with the empty event, so no parse has a second failing call.
ErrorLatch ==
  [][(failures >= 1 /\ called')
       => (ret' /\ event' = NoEvent /\ failures' = 1)]_vars

\* A call made after the failing call of a parser error.
ErrorLatchWitness ==
  /\ called
  /\ failures = 1
  /\ pre.error = ini_PARSER_ERROR
  /\ ret
  /\ event = NoEvent

\* The token grammar of a well-formed input, as an automaton over token kinds:
\* DOCUMENT-START, then headers `[ name ]` or `[ child : parent ]` and
\* properties `key scalar = [scalar]` in any order, then DOCUMENT-END.
GrammarStep(g, typ) ==
  CASE g = "start" /\ typ = ini_DOCUMENT_START_TOKEN -> "body"
    [] g \in {"body", "value"} /\ typ = ini_SECTION_START_TOKEN -> "name"
    [] g \in {"body", "value"} /\ typ = ini_SECTION_KEY_TOKEN -> "key"
    [] g \in {"body", "value"} /\ typ = ini_DOCUMENT_END_TOKEN -> "end"
    [] g = "value" /\ typ = ini_SCALAR_TOKEN -> "body"
    [] g = "name" /\ typ = ini_SCALAR_TOKEN -> "named"
    [] g = "named" /\ typ = ini_SECTION_INHERIT_TOKEN -> "parent"
    [] g = "named" /\ typ = ini_SECTION_END_TOKEN -> "body"
    [] g = "parent" /\ typ = ini_SCALAR_TOKEN -> "closing"
    [] g = "closing" /\ typ = ini_SECTION_END_TOKEN -> "body"
    [] g = "key" /\ typ = ini_SCALAR_TOKEN -> "keyed"
    [] g = "keyed" /\ typ = ini_SECTION_VALUE_TOKEN -> "value"
    [] OTHER -> "bad"

RECURSIVE Grammar(_)
Grammar(tokens) ==
  IF tokens = <<>> THEN "start"
  ELSE GrammarStep(Grammar(SubSeq(tokens, 1, Len(tokens) - 1)), Last(tokens).typ)

\* The tokens scanned so far begin a well-formed input, and the scanner has
\* supplied every token asked for.
WellFormedSoFar == Grammar(parser.tokens) # "bad" /\ ~scan_failed

\* C2. Document framing: on a well-formed input no call fails, Document-Start
\* is the first event and occurs once, Document-End occurs once and nothing
\* follows it, and the parse stops only after the Document-End event.
DocumentFraming ==
  WellFormedSoFar =>
    /\ failures = 0
    /\ ret
    /\ \A i \in 1..Len(events) :
         /\ (events[i].typ = ini_DOCUMENT_START_EVENT) = (i = 1)
         /\ events[i].typ = ini_DOCUMENT_END_EVENT => i = Len(events)
    /\ Latched(parser) =>
         /\ Grammar(parser.tokens) = "end"
         /\ events # <<>>
         /\ Last(events).typ = ini_DOCUMENT_END_EVENT
    /\ (called /\ event = NoEvent) => HasEvent(events, ini_DOCUMENT_END_EVENT)

\* A whole well-formed input with a header and a property was parsed, and
\* a further call was made.
DocumentFramingWitness ==
  /\ WellFormedSoFar
  /\ Grammar(parser.tokens) = "end"
  /\ called
  /\ event = NoEvent
  /\ Len(events) >= 6
  /\ events[1].typ = ini_DOCUMENT_START_EVENT
  /\ Last(events).typ = ini_DOCUMENT_END_EVENT

\* C3. Latched calls are no-ops: with Document-End produced, an error
\* recorded or the state Document-End, a call returns true with the empty
\* event and leaves the whole parser, the error record included, as it was.
LatchedCallsAreNoOps ==
  [][(called' /\ (\/ HasEvent(events, ini_DOCUMENT_END_EVENT)
                  \/ parser.error # ini_NO_ERROR
                  \/ parser.state = ini_PARSE_DOCUMENT_END_STATE))
       => (ret' /\ event' = NoEvent /\ parser' = parser)]_vars

\* A call made after the Document-End event left everything in place.
LatchedCallsAreNoOpsWitness ==
  /\ called
  /\ pre.state = ini_PARSE_DOCUMENT_END_STATE
  /\ HasEvent(events, ini_DOCUMENT_END_EVENT)
  /\ event = NoEvent
  /\ ret
  /\ parser = pre

\* The call just made was handled by the state machine.
RunningCall == called /\ ~Latched(pre)

\* The token i places after the head of the queue as the last call found it
\* (1 is the lookahead), and whether the scanner has produced it.
Ahead(i) == pre.tokens[pre.tokens_head + i]

HasAhead(i) == Len(pre.tokens) >= pre.tokens_head + i

\* The kinds of the first tokens the last call found match the sequence.
AheadKinds(kinds) ==
  /\ HasAhead(Len(kinds))
  /\ \A i \in 1..Len(kinds) : Ahead(i).typ = kinds[i]

\* The input opens with DOCUMENT-START and a SECTION-KEY token.
LeadingKey ==
  /\ Len(parser.tokens) >= 2
  /\ parser.tokens[1].typ = ini_DOCUMENT_START_TOKEN
  /\ parser.tokens[2].typ = ini_SECTION_KEY_TOKEN

\* The synthetic Section-Entry event of the default section at a mark.
DefaultSectionEvent(mark) ==
  [NoEvent EXCEPT !.typ = ini_SECTION_ENTRY_EVENT,
                  !.start_mark = mark,
                  !.end_mark = mark,
                  !.value = DEFAULT_SECTION,
                  !.tag = ini_SECTION_TAG]

\* C4. Default-section synthesis: with a SECTION-KEY token after
\* DOCUMENT-START the second event is the zero-width "default" Section-Entry
\* event at the key token's start; its call consumes nothing and moves to
\* Section-First-Key; the event after it is the key's Scalar event; and no
\* parse has such an event anywhere but second.
DefaultSectionSynthesis ==
  /\ (LeadingKey /\ Len(events) >= 2)
       => events[2] = DefaultSectionEvent(parser.tokens[2].start_mark)
  /\ (LeadingKey /\ called /\ pre.state = ini_PARSE_SECTION_FIRST_ENTRY_STATE)
       => /\ ret
          /\ event = DefaultSectionEvent(parser.tokens[2].start_mark)
          /\ parser.tokens_head = pre.tokens_head
          /\ parser.tokens_parsed = pre.tokens_parsed
          /\ parser.state = ini_PARSE_SECTION_FIRST_KEY_STATE
  /\ (LeadingKey /\ Len(events) >= 3)
       => /\ events[3].typ = ini_SCALAR_EVENT
          /\ events[3].start_mark = parser.tokens[2].start_mark
          /\ events[3].value = parser.tokens[3].value
  /\ \A i \in 1..Len(events) :
       (\E n \in 0..(2 * MaxTokens) : events[i] = DefaultSectionEvent(Mark(n)))
         => (i = 2 /\ events[1].typ = ini_DOCUMENT_START_EVENT)

\* The default section was synthesized and the key's Scalar event followed.
DefaultSectionSynthesisWitness ==
  /\ LeadingKey
  /\ Len(events) >= 3
  /\ events[2].value = DEFAULT_SECTION
  /\ events[3].typ = ini_SCALAR_EVENT

\* C5. Inheritance reconstruction: a running call in a section-entry state
\* that finds `[ child : parent ]` returns one Section-Entry event with the
\* inherit tag and the value child ++ marker ++ parent, consumes the five
\* tokens and moves to Section-First-Key; one that finds `[ name ]` returns a
\* Section-Entry event with the section tag and the value name.
InheritanceReconstruction ==
  (RunningCall /\ pre.state \in { ini_PARSE_SECTION_FIRST_ENTRY_STATE,
                                  ini_PARSE_SECTION_ENTRY_STATE })
    => /\ AheadKinds(<<ini_SECTION_START_TOKEN, ini_SCALAR_TOKEN,
                       ini_SECTION_INHERIT_TOKEN, ini_SCALAR_TOKEN,
                       ini_SECTION_END_TOKEN>>)
            => /\ ret
               /\ event.typ = ini_SECTION_ENTRY_EVENT
               /\ event.tag = ini_SECTION_INHERIT_TAG
               /\ event.value = Ahead(2).value \o Ahead(3).value \o Ahead(4).value
               /\ Last(events) = event
               /\ parser.tokens_head = pre.tokens_head + 5
               /\ parser.tokens_parsed = pre.tokens_parsed + 5
               /\ parser.state = ini_PARSE_SECTION_FIRST_KEY_STATE
       /\ AheadKinds(<<ini_SECTION_START_TOKEN, ini_SCALAR_TOKEN,
                       ini_SECTION_END_TOKEN>>)
            => /\ ret
               /\ event.typ = ini_SECTION_ENTRY_EVENT
               /\ event.tag = ini_SECTION_TAG
               /\ event.value = Ahead(2).value

\* An inheriting header with different child and parent names was parsed.
InheritanceReconstructionWitness ==
  /\ RunningCall
  /\ pre.state = ini_PARSE_SECTION_FIRST_ENTRY_STATE
  /\ AheadKinds(<<ini_SECTION_START_TOKEN, ini_SCALAR_TOKEN,
                  ini_SECTION_INHERIT_TOKEN, ini_SCALAR_TOKEN,
                  ini_SECTION_END_TOKEN>>)
  /\ Ahead(2).value # Ahead(4).value
  /\ event.tag = ini_SECTION_INHERIT_TAG

\* C6. Missing-value defaulting: a running call in Section-Value that finds
\* the value marker and then a token that is no scalar returns a Scalar event
\* with empty value, null tag and plain style, consumes the marker only,
\* leaves the other token as the lookahead, and moves to Section-Key.
MissingValueDefaulting ==
  (/\ RunningCall
   /\ pre.state = ini_PARSE_SECTION_VALUE_STATE
   /\ HasAhead(2)
   /\ Ahead(1).typ = ini_SECTION_VALUE_TOKEN
   /\ Ahead(2).typ # ini_SCALAR_TOKEN)
    => /\ ret
       /\ event.typ = ini_SCALAR_EVENT
       /\ event.value = <<>>
       /\ event.tag = ini_NULL_TAG
       /\ event.style = ini_PLAIN_SCALAR_STYLE
       /\ parser.tokens_head = pre.tokens_head + 1
       /\ parser.tokens_parsed = pre.tokens_parsed + 1
       /\ parser.token_available
       /\ HeadToken(parser) = Ahead(2)
       /\ parser.state = ini_PARSE_SECTION_KEY_STATE

\* A value marker followed by a SECTION-START token was defaulted.
MissingValueDefaultingWitness ==
  /\ RunningCall
  /\ pre.state = ini_PARSE_SECTION_VALUE_STATE
  /\ HasAhead(2)
  /\ Ahead(1).typ = ini_SECTION_VALUE_TOKEN
  /\ Ahead(2).typ = ini_SECTION_START_TOKEN
  /\ event.typ = ini_SCALAR_EVENT

\* C7. The boundary echo consumes nothing: a running call in Section-Key
\* whose lookahead is no SECTION-KEY token returns a Section-Entry event
\* without value or tag, leaves the queue position alone, moves to
\* Section-Entry, and the next peek_token returns the same token.
BoundaryEchoNonConsuming ==
  (/\ RunningCall
   /\ pre.state = ini_PARSE_SECTION_KEY_STATE
   /\ HasAhead(1)
   /\ Ahead(1).typ # ini_SECTION_KEY_TOKEN)
    => /\ ret
       /\ event.typ = ini_SECTION_ENTRY_EVENT
       /\ event.value = <<>>
       /\ event.tag = ""
       /\ parser.tokens_head = pre.tokens_head
       /\ parser.tokens_parsed = pre.tokens_parsed
       /\ parser.state = ini_PARSE_SECTION_ENTRY_STATE
       /\ ~peek_token(parser).nil
       /\ peek_token(parser).p = parser
       /\ HeadToken(parser) = Ahead(1)

\* The boundary event was returned with a SECTION-START token as lookahead.
BoundaryEchoNonConsumingWitness ==
  /\ RunningCall
  /\ pre.state = ini_PARSE_SECTION_KEY_STATE
  /\ HasAhead(1)
  /\ Ahead(1).typ = ini_SECTION_START_TOKEN
  /\ event.typ = ini_SECTION_ENTRY_EVENT

\* A Section-Entry event is a header (explicit or default) when it carries a
\* tag, and a boundary event when it carries neither value nor tag.
IsHeader(e) == e.typ = ini_SECTION_ENTRY_EVENT /\ e.tag # ""

IsBoundary(e) == e.typ = ini_SECTION_ENTRY_EVENT /\ e.tag = "" /\ e.value = <<>>

\* The index of the last Section-Entry event before event j, or 0.
PrevEntry(j) ==
  LET before == { i \in 1..(j - 1) : events[i].typ = ini_SECTION_ENTRY_EVENT }
  IN  IF before = {} THEN 0 ELSE CHOOSE i \in before : \A k \in before : k <= i

\* Event j comes in an open section: the nearest Section-Entry event before
\* it is a header.
InOpenSection(j) == PrevEntry(j) # 0 /\ IsHeader(events[PrevEntry(j)])

\* Event j comes with no section open: no Section-Entry event comes before it,
\* or the nearest one is a boundary event.
InNoSection(j) == PrevEntry(j) = 0 \/ IsBoundary(events[PrevEntry(j)])

\* Headers and boundary events pair up: each boundary event closes the
\* section of the header before it, after the section's property events, and
\* each header and the Document-End event come with no section open.
BoundaryPairing ==
  \A j \in 1..Len(events) :
    /\ events[j].typ = ini_SECTION_ENTRY_EVENT => (IsHeader(events[j]) \/ IsBoundary(events[j]))
    /\ IsBoundary(events[j]) => InOpenSection(j)
    /\ events[j].typ = ini_SCALAR_EVENT => InOpenSection(j)
    /\ IsHeader(events[j]) => InNoSection(j)
    /\ events[j].typ = ini_DOCUMENT_END_EVENT => InNoSection(j)

\* C8 as stated. Boundary echo once per section: in every parse that reached
\* Document-End without a failure, each header has exactly one boundary
\* event, after its properties and before the next header or Document-End,
\* and no boundary event is without a header.
BoundaryEchoOncePerSectionAnyParse ==
  (HasEvent(events, ini_DOCUMENT_END_EVENT) /\ failures = 0) => BoundaryPairing

\* C8, amended. Boundary echo once per section of a well-formed input: while
\* the tokens scanned begin a well-formed input, headers and boundary events
\* pair up, so a parse of a whole well-formed input has exactly one boundary
\* event per header.
BoundaryEchoOncePerSection ==
  WellFormedSoFar => BoundaryPairing

\* A well-formed input with two sections was parsed to Document-End.
BoundaryEchoOncePerSectionWitness ==
  /\ WellFormedSoFar
  /\ HasEvent(events, ini_DOCUMENT_END_EVENT)
  /\ \E i, j \in 1..Len(events) :
       /\ i < j
       /\ IsHeader(events[i])
       /\ IsHeader(events[j])
       /\ \E k \in (i + 1)..(j - 1) : events[k].typ = ini_SCALAR_EVENT

\* The last call found a header without its closing bracket: `[ name T` with
\* T neither the inherit marker nor SECTION-END, or `[ child : parent T` with
\* T no SECTION-END; the index of T.
MissingBracketAt ==
  IF AheadKinds(<<ini_SECTION_START_TOKEN, ini_SCALAR_TOKEN>>) /\ HasAhead(3)
  THEN IF Ahead(3).typ = ini_SECTION_INHERIT_TOKEN
       THEN IF /\ HasAhead(5)
               /\ Ahead(4).typ = ini_SCALAR_TOKEN
               /\ Ahead(5).typ # ini_SECTION_END_TOKEN
            THEN 5 ELSE 0
       ELSE IF Ahead(3).typ # ini_SECTION_END_TOKEN THEN 3 ELSE 0
  ELSE 0

\* C9. Error precision for a missing closing bracket: a running call in a
\* section-entry state that finds `[ name` (with or without `: parent`) and
\* then a token T that is no SECTION-END fails with the parser error "did
\* not find expected <section-end>" at T's start mark and returns no event.
MissingSectionEndError ==
  (/\ RunningCall
   /\ pre.state \in { ini_PARSE_SECTION_FIRST_ENTRY_STATE, ini_PARSE_SECTION_ENTRY_STATE }
   /\ MissingBracketAt # 0)
    => /\ ~ret
       /\ event = NoEvent
       /\ parser.error = ini_PARSER_ERROR
       /\ parser.problem = ProblemSectionEnd
       /\ parser.problem_mark = Ahead(MissingBracketAt).start_mark

\* An inheriting header was closed by a token that is no SECTION-END.
MissingSectionEndErrorWitness ==
  /\ RunningCall
  /\ pre.state = ini_PARSE_SECTION_FIRST_ENTRY_STATE
  /\ MissingBracketAt = 5
  /\ parser.problem = ProblemSectionEnd

\* C10. Errors of the state machine: a recorded parser error carries one of
\* the six messages and the start mark of the token peeked last (the last
\* token the scanner produced); any other error is the scanner's own; and a
\* call records a parser error exactly when it returns false although
\* peek_token never returned nil.
ParserErrorRecord ==
  /\ parser.error \in { ini_NO_ERROR, ini_PARSER_ERROR, ini_SCANNER_ERROR }
  /\ parser.error = ini_SCANNER_ERROR => (scan_failed /\ failures = 1)
  /\ parser.error = ini_PARSER_ERROR
       => /\ parser.problem \in ParserProblems
          /\ parser.tokens # <<>>
          /\ parser.problem_mark = Last(parser.tokens).start_mark
  /\ called
       => ((pre.error = ini_NO_ERROR /\ parser.error = ini_PARSER_ERROR)
             <=> (~ret /\ ~peek_nil))

\* A call failed on a token that is not the first of the input.
ParserErrorRecordWitness ==
  /\ called
  /\ ~ret
  /\ ~peek_nil
  /\ pre.error = ini_NO_ERROR
  /\ parser.problem = ProblemSectionValue
  /\ parser.problem_mark # ZeroMark

\* C11. One event per call: a call the state machine handles that returns
\* true returns one event of a kind other than the empty kind, and a call
\* that returns false returns the empty event.
OneEventPerCall ==
  [][called' =>
       /\ (~Latched(parser) /\ ret')
            => (event'.typ # ini_NO_EVENT /\ events' = Append(events, event'))
       /\ ~ret' => (event' = NoEvent /\ events' = events)]_vars

\* A running call returned a Scalar event.
OneEventPerCallWitness ==
  /\ RunningCall
  /\ ret
  /\ event.typ = ini_SCALAR_EVENT
  /\ Last(events) = event

\* C12 as stated. The Document-End transition consumes its token: a running
\* call in a section-entry state with DOCUMENT-END as lookahead advances
\* tokens_head by one, sets document_end_produced, returns the Document-End
\* event and makes Document-End the current state.
DocumentEndConsumesToken ==
  (/\ RunningCall
   /\ pre.state \in { ini_PARSE_SECTION_FIRST_ENTRY_STATE, ini_PARSE_SECTION_ENTRY_STATE }
   /\ HasAhead(1)
   /\ Ahead(1).typ = ini_DOCUMENT_END_TOKEN)
    => /\ ret
       /\ event.typ = ini_DOCUMENT_END_EVENT
       /\ parser.state = ini_PARSE_DOCUMENT_END_STATE
       /\ parser.states = <<>>
       /\ parser.tokens_head = pre.tokens_head + 1
       /\ parser.document_end_produced

\* The values document_end_produced took during the last call: the value the
\* call found, then the value each skip_token of the call assigned.
DocumentEndProducedValues ==
  <<pre.document_end_produced>>
    \o [i \in 1..(parser.tokens_head - pre.tokens_head)
          |-> Ahead(i).typ = ini_DOCUMENT_END_TOKEN]

\* C13. document_end_produced is monotone: through every call, skip by skip,
\* it never goes from true to false.
DocumentEndProducedMonotone ==
  /\ parser.tokens_head >= pre.tokens_head
  /\ parser.document_end_produced = Last(DocumentEndProducedValues)
  /\ \A i, j \in 1..Len(DocumentEndProducedValues) :
       (i < j /\ DocumentEndProducedValues[i]) => DocumentEndProducedValues[j]

\* A call that consumed three tokens set the flag with the last of them, and
\* the next call left it set.
DocumentEndProducedMonotoneWitness ==
  /\ called
  /\ pre.document_end_produced
  /\ parser.document_end_produced
  /\ parser.tokens_head >= 3
  /\ parser.tokens[parser.tokens_head - 1].typ = ini_SECTION_KEY_TOKEN

\* C14. State-stack discipline: the stack never holds more than one state;
\* the only push is of Document-End by the Document-Start transition; the
\* only pop is by the Document-End transition, and every state that can pop
\* has the return state on the stack.
StateStackDiscipline ==
  /\ ~panicked
  /\ Len(parser.states) <= 1
  /\ parser.states \in { <<>>, <<ini_PARSE_DOCUMENT_END_STATE>> }
  /\ parser.state \in { ini_PARSE_SECTION_FIRST_ENTRY_STATE, ini_PARSE_SECTION_ENTRY_STATE }
       => Len(parser.states) = 1
  /\ (called /\ Len(parser.states) > Len(pre.states))
       => /\ pre.state = ini_PARSE_DOCUMENT_START_STATE
          /\ event.typ = ini_DOCUMENT_START_EVENT
          /\ parser.states = Append(pre.states, ini_PARSE_DOCUMENT_END_STATE)
  /\ (called /\ Len(parser.states) < Len(pre.states))
       => /\ pre.state \in { ini_PARSE_SECTION_FIRST_ENTRY_STATE,
                             ini_PARSE_SECTION_ENTRY_STATE }
          /\ event.typ = ini_DOCUMENT_END_EVENT
          /\ parser.state = Last(pre.states)
          /\ parser.states = <<>>

\* The Document-End transition popped the return state in Section-Entry.
StateStackDisciplineWitness ==
  /\ called
  /\ pre.state = ini_PARSE_SECTION_ENTRY_STATE
  /\ pre.states = <<ini_PARSE_DOCUMENT_END_STATE>>
  /\ parser.states = <<>>
  /\ parser.state = ini_PARSE_DOCUMENT_END_STATE

\* C15. Peek/consume protocol: no skip_token runs without a peeked token
\* available; every skip advances tokens_head and tokens_parsed by one, so
\* the two stay equal; tokens_head never decreases and never passes the
\* tokens the scanner has produced.
PeekConsumeProtocol ==
  /\ ~parser.skipped_unpeeked
  /\ parser.tokens_parsed = parser.tokens_head
  /\ parser.tokens_head >= pre.tokens_head
  /\ parser.tokens_head <= Len(parser.tokens)
  /\ parser.token_available => parser.tokens_head < Len(parser.tokens)

\* A call consumed the five tokens of an inheriting header.
PeekConsumeProtocolWitness ==
  /\ called
  /\ ret
  /\ parser.tokens_head = pre.tokens_head + 5
  /\ parser.tokens_parsed = pre.tokens_parsed + 5

\* C16 as stated. Section-end in Section-Entry: a running call whose
\* lookahead is SECTION-END consumes it and the token after it; when that
\* token is no SECTION-KEY the call fails with "did not find expected
\* <section-key>" at its start mark; when it is, those two tokens and no
\* other are consumed, a Scalar event is returned and the state is
\* Section-Value.
SectionEndInEntryTwoTokens ==
  (/\ RunningCall
   /\ ~peek_nil
   /\ pre.state = ini_PARSE_SECTION_ENTRY_STATE
   /\ HasAhead(2)
   /\ Ahead(1).typ = ini_SECTION_END_TOKEN)
    => IF Ahead(2).typ # ini_SECTION_KEY_TOKEN
       THEN /\ ~ret
            /\ event = NoEvent
            /\ parser.error = ini_PARSER_ERROR
            /\ parser.problem = ProblemSectionKey
            /\ parser.problem_mark = Ahead(2).start_mark
            /\ parser.tokens_head = pre.tokens_head + 2
       ELSE /\ ret
            /\ event.typ = ini_SCALAR_EVENT
            /\ parser.state = ini_PARSE_SECTION_VALUE_STATE
            /\ parser.tokens_head = pre.tokens_head + 2

\* C17 as stated. Unexpected lookahead in the section-entry states: in
\* Section-First-Entry every lookahead other than DOCUMENT-END, SECTION-KEY
\* and SECTION-START, and in Section-Entry every lookahead other than
\* DOCUMENT-END, SECTION-START and SECTION-END, makes the call fail with
\* "did not find expected <section-start> or <section-key>" at the
\* lookahead's start mark, with no event.
SectionEntryUnexpectedToken ==
  (/\ RunningCall
   /\ ~peek_nil
   /\ HasAhead(1)
   /\ \/ /\ pre.state = ini_PARSE_SECTION_FIRST_ENTRY_STATE
         /\ Ahead(1).typ \notin { ini_DOCUMENT_END_TOKEN, ini_SECTION_KEY_TOKEN,
                                  ini_SECTION_START_TOKEN }
      \/ /\ pre.state = ini_PARSE_SECTION_ENTRY_STATE
         /\ Ahead(1).typ \notin { ini_DOCUMENT_END_TOKEN, ini_SECTION_START_TOKEN,
                                  ini_SECTION_END_TOKEN })
    => /\ ~ret
       /\ event = NoEvent
       /\ parser.error = ini_PARSER_ERROR
       /\ parser.problem = ProblemSectionStartOrKey
       /\ parser.problem_mark = Ahead(1).start_mark

\* C18. Key transition: in Section-First-Key or Section-Key with a
\* SECTION-KEY lookahead the key is consumed; a following SCALAR is consumed
\* too, one Scalar event with its bytes and their classification is returned
\* and the state is Section-Value; any other following token fails the call
\* with "did not find expected <scalar>" at that token's start mark, and the
\* state stays where it was.
KeyTransition ==
  (/\ RunningCall
   /\ ~peek_nil
   /\ pre.state \in { ini_PARSE_SECTION_FIRST_KEY_STATE, ini_PARSE_SECTION_KEY_STATE }
   /\ HasAhead(2)
   /\ Ahead(1).typ = ini_SECTION_KEY_TOKEN)
    => IF Ahead(2).typ = ini_SCALAR_TOKEN
       THEN /\ ret
            /\ event = [NoEvent EXCEPT !.typ = ini_SCALAR_EVENT,
                                       !.start_mark = Ahead(1).start_mark,
                                       !.end_mark = Ahead(2).end_mark,
                                       !.value = Ahead(2).value,
                                       !.tag = analyzeTag(Ahead(2).value),
                                       !.style = Ahead(2).style]
            /\ Last(events) = event
            /\ parser.state = ini_PARSE_SECTION_VALUE_STATE
            /\ parser.tokens_head = pre.tokens_head + 2
       ELSE /\ ~ret
            /\ event = NoEvent
            /\ parser.error = ini_PARSER_ERROR
            /\ parser.problem = ProblemScalar
            /\ parser.problem_mark = Ahead(2).start_mark
            /\ parser.state = pre.state
            /\ parser.tokens_head = pre.tokens_head + 1

\* A key that no scalar follows failed the call in Section-Key.
KeyTransitionWitness ==
  /\ RunningCall
  /\ ~peek_nil
  /\ pre.state = ini_PARSE_SECTION_KEY_STATE
  /\ HasAhead(2)
  /\ Ahead(1).typ = ini_SECTION_KEY_TOKEN
  /\ Ahead(2).typ # ini_SCALAR_TOKEN
  /\ ~ret
  /\ parser.problem = ProblemScalar

\* C19 as stated. The boundary Section-Entry event returned from Section-Key
\* on a lookahead that is no SECTION-KEY is zero-width: both its marks are
\* the lookahead's start mark.
BoundaryEventZeroWidth ==
  (/\ RunningCall
   /\ pre.state = ini_PARSE_SECTION_KEY_STATE
   /\ HasAhead(1)
   /\ Ahead(1).typ # ini_SECTION_KEY_TOKEN)
    => /\ ret
       /\ event.typ = ini_SECTION_ENTRY_EVENT
       /\ event.start_mark = Ahead(1).start_mark
       /\ event.end_mark = event.start_mark

\* C20 as stated. No silent end of parse: a call returns the empty event
\* with success only after a call that returned the Document-End event or a
\* call that failed.
NoSilentEndOfParse ==
  (called /\ ret /\ event.typ = ini_NO_EVENT)
    => (HasEvent(events, ini_DOCUMENT_END_EVENT) \/ failures > 0)

\* The tokens the last call consumed, as offsets from its first lookahead.
Consumed == 1..(parser.tokens_head - pre.tokens_head)

\* C21 as stated. Scalar provenance: every Scalar event is the empty
\* null-tagged scalar or carries the bytes of a consumed token of kind
\* SCALAR, and the name (and the parent name) in a header's Section-Entry
\* event come from consumed tokens of kind SCALAR.
ScalarProvenance ==
  (RunningCall /\ ret)
    => /\ event.typ = ini_SCALAR_EVENT
            => \/ event = [NoEvent EXCEPT !.typ = ini_SCALAR_EVENT,
                                          !.start_mark = event.start_mark,
                                          !.end_mark = event.start_mark,
                                          !.tag = ini_NULL_TAG,
                                          !.style = ini_PLAIN_SCALAR_STYLE]
               \/ \E i \in Consumed :
                    /\ Ahead(i).typ = ini_SCALAR_TOKEN
                    /\ Ahead(i).value = event.value
                    /\ Ahead(i).end_mark = event.end_mark
       /\ (IsHeader(event) /\ Consumed # {})
            => \E i \in Consumed :
                 /\ Ahead(i).typ = ini_SCALAR_TOKEN
                 /\ \/ event.value = Ahead(i).value
                    \/ /\ i + 2 \in Consumed
                       /\ Ahead(i + 1).typ = ini_SECTION_INHERIT_TOKEN
                       /\ Ahead(i + 2).typ = ini_SCALAR_TOKEN
                       /\ event.value
                            = Ahead(i).value \o Ahead(i + 1).value \o Ahead(i + 2).value

FirstDocumentEnd(tokens) ==
  CHOOSE i \in 1..Len(tokens) :
    /\ tokens[i].typ = ini_DOCUMENT_END_TOKEN
    /\ \A j \in 1..(i - 1) : tokens[j].typ # ini_DOCUMENT_END_TOKEN

\* C22. No read past document-end: once the queue holds a DOCUMENT-END
\* token, tokens_head never passes the first one, no token after it is ever
\* asked of the scanner, and no call peeks beyond it.
NoReadPastDocumentEnd ==
  HasDocumentEnd(parser.tokens)
    => /\ parser.tokens_head <= FirstDocumentEnd(parser.tokens)
       /\ Len(parser.tokens) = FirstDocumentEnd(parser.tokens)
       /\ ~Starved
       /\ ~(RunningCall /\ peek_nil /\ HasDocumentEnd(pre.tokens))

\* A call consumed the DOCUMENT-END token, the last of the queue, on the
\* section-end path.
NoReadPastDocumentEndWitness ==
  /\ RunningCall
  /\ ret
  /\ event.typ = ini_SCALAR_EVENT
  /\ HasDocumentEnd(parser.tokens)
  /\ parser.tokens_head = FirstDocumentEnd(parser.tokens)
  /\ parser.tokens_head > pre.tokens_head

\* C23. Termination: when the caller keeps calling and the scanner keeps
\* answering, the parser reaches a latched condition (Document-End state,
\* document_end_produced, or a recorded error); and never do more than two
\* running calls in a row consume no token.
Termination ==
  /\ <>Latched(parser)
  /\ [](idle_calls <= 2)

\* The boundary event and then the Document-End event, neither consuming a
\* token, latched the parser.
TerminationWitness ==
  /\ RunningCall
  /\ Latched(parser)
  /\ idle_calls = 2
  /\ event.typ = ini_DOCUMENT_END_EVENT
  /\ Last(events) = event
  /\ parser.tokens_head = pre.tokens_head

====
